---- MODULE Spec2Model ----
(***************************************************************************)
(* Model of the Maven dependency visualizer, stage 2 (src/stage2.py):      *)
(* DependencyVisualizer.run and the stages it drives.                      *)
(*                                                                         *)
(* Text is a sequence of one-character strings, so that split, strip,      *)
(* replace and endswith are computed character by character.  An XML       *)
(* element is a record [tag, ns, text, kids] as xml.etree.ElementTree      *)
(* presents it after parsing.                                              *)
(***************************************************************************)
EXTENDS Integers, Sequences, FiniteSets, TLC

VARIABLES pc, args, group_id, artifact_id, pom_url, response, pom_content,
          dependencies, error, exit_code, trace, net

vars == <<pc, args, group_id, artifact_id, pom_url, response, pom_content,
          dependencies, error, exit_code, trace, net>>

(***************************************************************************)
(* Bounds of the model.                                                    *)
(***************************************************************************)
\* longest package string of the coordinate specification
MaxLen == 4
\* longest dependency list of the manifest specification
MaxDeps == 2

(***************************************************************************)
(* Python values.                                                          *)
(***************************************************************************)
\* Python's None where a string is expected (the text of an empty element)
None == "<None>"
\* Python's None where an Element is expected (find() found nothing)
NoElement == [tag |-> None, ns |-> None, text |-> None, kids |-> <<>>]
\* "no exception"
NoError == [kind |-> "none", msg |-> "", code |-> 0, cause |-> ""]
\* the process is still running
Running == -1

Range(s) == {s[i] : i \in 1..Len(s)}

\* the characters str.strip() removes
Whitespace == {" "}

(***************************************************************************)
(* str methods used by the stages.                                         *)
(***************************************************************************)
RECURSIVE lstrip(_)
lstrip(s) ==
    IF s # <<>> /\ Head(s) \in Whitespace THEN lstrip(Tail(s)) ELSE s

RECURSIVE rstrip(_)
rstrip(s) ==
    IF s # <<>> /\ s[Len(s)] \in Whitespace
    THEN rstrip(SubSeq(s, 1, Len(s) - 1)) ELSE s

strip(s) == rstrip(lstrip(s))

\* str.isspace(): non-empty and all whitespace
isspace(s) == s # <<>> /\ Range(s) \subseteq Whitespace

\* index of the first occurrence of character c in s, 0 when there is none
RECURSIVE find_char(_, _, _)
find_char(s, c, i) ==
    IF i > Len(s) THEN 0
    ELSE IF s[i] = c THEN i ELSE find_char(s, c, i + 1)

\* s.split(c, 1) for an s that contains c: the parts around the first c
split_once(s, c) ==
    LET i == find_char(s, c, 1)
    IN  <<SubSeq(s, 1, i - 1), SubSeq(s, i + 1, Len(s))>>

\* s.replace(old, new) for one-character old and new
replace(s, old, new) == [i \in 1..Len(s) |-> IF s[i] = old THEN new ELSE s[i]]

endswith(s, c) == s # <<>> /\ s[Len(s)] = c

\* parse_package_name without the strip() of line 125
parse_package_name_unstripped(package) ==
    IF ":" \notin Range(package)
    THEN [ok |-> FALSE, group_id |-> <<>>, artifact_id |-> <<>>,
          error |-> [kind |-> "ValueError", msg |-> "package name must contain ':'",
                    code |-> 0, cause |-> ""]]
    ELSE LET parts == split_once(package, ":")
         IN  [ok |-> TRUE, group_id |-> parts[1], artifact_id |-> parts[2],
              error |-> NoError]

(***************************************************************************)
(* parse_package_name: the pair (groupId, artifactId), or the ValueError   *)
(* it re-raises.                                                           *)
(***************************************************************************)
parse_package_name(package) ==
    IF ":" \notin Range(package)
    THEN [ok |-> FALSE, group_id |-> <<>>, artifact_id |-> <<>>,
          error |-> [kind |-> "ValueError", msg |-> "package name must contain ':'",
                    code |-> 0, cause |-> ""]]
    ELSE LET parts == split_once(package, ":")
         IN  [ok |-> TRUE, group_id |-> strip(parts[1]),
              artifact_id |-> strip(parts[2]), error |-> NoError]

\* construct_pom_url with repository.rstrip('/') in place of lines 138-139
construct_pom_url_rstrip(g, a, version, repository) ==
    LET RECURSIVE rstrip_slashes(_)
        rstrip_slashes(r) ==
            IF endswith(r, "/") THEN rstrip_slashes(SubSeq(r, 1, Len(r) - 1)) ELSE r
    IN  rstrip_slashes(repository) \o <<"/">> \o replace(g, ".", "/") \o <<"/">> \o a
            \o <<"/">> \o version \o <<"/">> \o a \o <<"-">> \o version
            \o <<".", "p", "o", "m">>

(***************************************************************************)
(* construct_pom_url                                                       *)
(***************************************************************************)
construct_pom_url(g, a, version, repository) ==
    LET group_path == replace(g, ".", "/")
        pom_filename == a \o <<"-">> \o version \o <<".", "p", "o", "m">>
        repo == IF endswith(repository, "/")
                THEN SubSeq(repository, 1, Len(repository) - 1)
                ELSE repository
    IN  repo \o <<"/">> \o group_path \o <<"/">> \o a \o <<"/">>
             \o version \o <<"/">> \o pom_filename

(***************************************************************************)
(* xml.etree.ElementTree: elements and the path lookups the parser uses.   *)
(***************************************************************************)
\* the namespace bound to the prefix "maven"
POM_NS == "http://maven.apache.org/POM/4.0.0"

Elem(tag, ns, text, kids) == [tag |-> tag, ns |-> ns, text |-> text, kids |-> kids]

\* the element's qualified name is {POM_NS}tag
matches(e, tag) == e.ns = POM_NS /\ e.tag = tag

\* every descendant of e in document order, e itself excluded
RECURSIVE descendants(_)
RECURSIVE descendants_of_all(_)
descendants(e) == descendants_of_all(e.kids)
descendants_of_all(kids) ==
    IF kids = <<>> THEN <<>>
    ELSE <<Head(kids)>> \o descendants(Head(kids)) \o descendants_of_all(Tail(kids))

\* e.findall('maven:tag', ns): the matching direct children, in order
findall(e, tag) == SelectSeq(e.kids, LAMBDA k : matches(k, tag))

\* e.find('maven:tag', ns): the first matching direct child, or None
find(e, tag) ==
    LET found == findall(e, tag)
    IN  IF found = <<>> THEN NoElement ELSE found[1]

\* e.find('.//maven:tag', ns): the first matching descendant in document
\* order, or None
find_descendant(e, tag) ==
    LET found == SelectSeq(descendants(e), LAMBDA k : matches(k, tag))
    IN  IF found = <<>> THEN NoElement ELSE found[1]

(***************************************************************************)
(* parse_dependencies_from_pom.  The manifest text is either well formed   *)
(* (ET.fromstring returns its root element) or not (ET.fromstring raises   *)
(* ParseError with a description of the syntax error).                     *)
(***************************************************************************)
WellFormed(root) == [wellformed |-> TRUE, root |-> root, syntax_error |-> ""]
Malformed(desc) == [wellformed |-> FALSE, root |-> NoElement, syntax_error |-> desc]

\* dependency_dict without the defaults of lines 198-199
dependency_dict_no_defaults(dep_elem) ==
    [groupId |-> find(dep_elem, "groupId").text,
     artifactId |-> find(dep_elem, "artifactId").text,
     version |-> find(dep_elem, "version").text,
     scope |-> find(dep_elem, "scope").text]

\* the dictionary built for one dependency element, lines 195-200
dependency_dict(dep_elem) ==
    LET group_id_elem == find(dep_elem, "groupId")
        artifact_id_elem == find(dep_elem, "artifactId")
        version_elem == find(dep_elem, "version")
        scope_elem == find(dep_elem, "scope")
    IN  [groupId |-> group_id_elem.text,
         artifactId |-> artifact_id_elem.text,
         version |-> IF version_elem # NoElement THEN version_elem.text ELSE "N/A",
         scope |-> IF scope_elem # NoElement THEN scope_elem.text ELSE "compile"]

\* the condition of line 194
has_coordinates(dep_elem) ==
    find(dep_elem, "groupId") # NoElement /\ find(dep_elem, "artifactId") # NoElement

\* the for loop with dependencies.insert(0, dependency) in place of append
RECURSIVE collect_dependencies_prepend(_, _)
collect_dependencies_prepend(dep_elems, deps) ==
    IF dep_elems = <<>> THEN deps
    ELSE collect_dependencies_prepend(Tail(dep_elems),
            IF has_coordinates(Head(dep_elems))
            THEN <<dependency_dict(Head(dep_elems))>> \o deps
            ELSE deps)

\* the for loop of lines 188-201 over the remaining dependency elements
RECURSIVE collect_dependencies(_, _)
collect_dependencies(dep_elems, deps) ==
    IF dep_elems = <<>> THEN deps
    ELSE collect_dependencies(Tail(dep_elems),
            IF has_coordinates(Head(dep_elems))
            THEN Append(deps, dependency_dict(Head(dep_elems)))
            ELSE deps)

\* the element line 182 looks up
locate_dependencies(root) == find_descendant(root, "dependencies")

\* parse_dependencies_from_pom answering a syntax error with an empty list
parse_dependencies_from_pom_lenient(content) ==
    IF ~content.wellformed
    THEN [ok |-> TRUE, value |-> <<>>, error |-> NoError]
    ELSE LET dependencies_elem == locate_dependencies(content.root)
         IN  IF dependencies_elem = NoElement
             THEN [ok |-> TRUE, value |-> <<>>, error |-> NoError]
             ELSE [ok |-> TRUE,
                   value |-> collect_dependencies(
                                findall(dependencies_elem, "dependency"), <<>>),
                   error |-> NoError]

parse_dependencies_from_pom(content) ==
    IF ~content.wellformed
    THEN [ok |-> FALSE, value |-> <<>>,
          error |-> [kind |-> "Exception",
                     msg |-> "POM XML parse error", code |-> 0,
                     cause |-> content.syntax_error]]
    ELSE LET dependencies_elem == locate_dependencies(content.root)
         IN  IF dependencies_elem = NoElement
             THEN [ok |-> TRUE, value |-> <<>>, error |-> NoError]
             ELSE [ok |-> TRUE,
                   value |-> collect_dependencies(
                                findall(dependencies_elem, "dependency"), <<>>),
                   error |-> NoError]

(***************************************************************************)
(* validate_arguments                                                      *)
(***************************************************************************)
validate_arguments(a) ==
    /\ ":" \in Range(a.package)
    /\ ~(a.version = <<>> \/ isspace(a.version))
    /\ ~(a.max_depth <= 0)
    /\ a.repository # <<>>

(***************************************************************************)
(* download_pom_file.  urllib.request decides by the scheme of the address *)
(* what is opened; `world` is what the server or the file system answers.  *)
(***************************************************************************)
\* the scheme urllib splits off: the characters before the first ':' when
\* there is at least one and none of them is '/'; <<>> when there is none
url_type(url) ==
    LET i == find_char(url, ":", 1)
    IN  IF i >= 2 /\ "/" \notin Range(SubSeq(url, 1, i - 1))
        THEN SubSeq(url, 1, i - 1) ELSE <<>>

HttpSchemes == {<<"h", "t", "t", "p">>, <<"h", "t", "t", "p", "s">>}
FileScheme == <<"f", "i", "l", "e">>

Failure(kind, msg, code, cause, requests, reads) ==
    [ok |-> FALSE, value |-> None, requests |-> requests, local_reads |-> reads,
     error |-> [kind |-> kind, msg |-> msg, code |-> code, cause |-> cause]]

\* download_pom_file accepting every 2xx status at line 156
download_pom_file_any_2xx(url, world) ==
    IF url_type(url) \in HttpSchemes /\ world.kind = "response"
       /\ world.status >= 200 /\ world.status < 300 /\ world.decodable
    THEN [ok |-> TRUE, value |-> world.content, requests |-> 1,
          local_reads |-> 0, error |-> NoError]
    ELSE Failure("Exception", "error while downloading the POM file",
                 IF world.kind = "response" THEN world.status ELSE 0, "",
                 IF url_type(url) \in HttpSchemes THEN 1 ELSE 0, 0)

download_pom_file(url, world) ==
    LET scheme == url_type(url)
    IN  IF scheme = <<>>
        THEN \* Request() raises ValueError, caught at line 167
             Failure("Exception", "error while downloading the POM file", 0,
                     "unknown url type", 0, 0)
        ELSE IF scheme \in HttpSchemes
        THEN IF world.kind = "transport_error"
             THEN \* URLError, line 165
                  Failure("Exception", "URL error", 0, "transport", 1, 0)
             ELSE IF ~(world.status >= 200 /\ world.status < 300)
             THEN \* urlopen raises HTTPError, line 163
                  Failure("Exception", "could not download the POM file: HTTP",
                          world.status, "HTTPError", 1, 0)
             ELSE IF world.status = 200
             THEN IF world.decodable
                  THEN [ok |-> TRUE, value |-> world.content, requests |-> 1,
                        local_reads |-> 0, error |-> NoError]
                  ELSE \* UnicodeDecodeError, caught at line 167
                       Failure("Exception", "error while downloading the POM file",
                               0, "UnicodeDecodeError", 1, 0)
             ELSE \* line 161, caught and wrapped at line 167
                  Failure("Exception", "error while downloading the POM file",
                          world.status, "HTTP error", 1, 0)
        ELSE IF scheme = FileScheme
        THEN IF world.kind = "transport_error"
             THEN \* no such file: URLError, line 165
                  Failure("Exception", "URL error", 0, "no such file", 0, 0)
             ELSE \* the file is opened; its response has status None, line 161
                  Failure("Exception", "error while downloading the POM file",
                          0, "HTTP error", 0, 1)
        ELSE \* no handler for the scheme: URLError, line 165
             Failure("Exception", "URL error", 0, "unknown url type", 0, 0)

(***************************************************************************)
(* Manifests.                                                              *)
(***************************************************************************)
\* a field that is left out when an element is built
Absent == "<absent>"

Field(tag, text) == IF text = Absent THEN <<>> ELSE <<Elem(tag, POM_NS, text, <<>>)>>

\* <dependency> with the given fields; a text of None is an empty element
Dependency(g, a, v, s) ==
    Elem("dependency", POM_NS, None,
         Field("groupId", g) \o Field("artifactId", a) \o Field("version", v)
            \o Field("scope", s))

\* an element of the list that is not a {POM_NS}dependency
Unqualified(e) == [e EXCEPT !.ns = ""]

DependencyElements ==
    {Dependency(g, a, Absent, Absent) :
        g \in {Absent, None, "junit"}, a \in {Absent, None, "junit"}}
    \cup {Dependency("org.x", "core", v, s) :
        v \in {Absent, None, "1.0"}, s \in {Absent, "test"}}
    \cup {Unqualified(Dependency("org.y", "plain", "2.0", Absent))}

SeqsUpTo(S, n) == UNION {[1..k -> S] : k \in 0..n}

DependencyLists == SeqsUpTo(DependencyElements, MaxDeps)

Dependencies(list) == Elem("dependencies", POM_NS, None, list)

\* <dependencyManagement> or <plugin> holding a dependencies element
Wrapper(tag, list) == <<Elem(tag, POM_NS, None, <<Dependencies(list)>>)>>

NestedSections ==
    {<<>>, Wrapper("dependencyManagement", <<>>),
     Wrapper("dependencyManagement", <<Dependency("managed", "bom", "9", Absent)>>),
     Wrapper("plugin", <<Dependency("tool", "plug", Absent, Absent)>>)}

Project(kids) == Elem("project", POM_NS, None, kids)

Manifests ==
    {WellFormed(Project(before \o <<Dependencies(list)>> \o after)) :
        before \in NestedSections, list \in DependencyLists, after \in NestedSections}
    \cup {WellFormed(Project(before \o after)) :
        before \in NestedSections, after \in NestedSections}
    \cup {WellFormed(Unqualified(Project(<<Unqualified(Dependencies(
            <<Unqualified(Dependency("junit", "junit", Absent, Absent))>>))>>))),
          WellFormed(Dependencies(<<Dependency("junit", "junit", Absent, Absent)>>)),
          Malformed("mismatched tag: line 1, column 14"),
          Malformed("no element found: line 1, column 0")}

\* the manifests a server answers with in a run
ServedManifests ==
    {WellFormed(Project(<<>>)),
     WellFormed(Project(<<Dependencies(<<Dependency("junit", "junit", Absent, Absent)>>)>>)),
     WellFormed(Project(<<Dependencies(<<Dependency(None, "junit", "4", "test")>>)>>)),
     Malformed("mismatched tag: line 1, column 14")}

NoContent == Malformed(None)

(***************************************************************************)
(* Command lines and answers of the outside world.                         *)
(***************************************************************************)
Packages ==
    {<<"o", ".", "s", ":", "c">>, <<" ", "g", ":", "a", ":", "b">>, <<"g", "a">>}

Versions == {<<"5", ".", "3">>, <<" ">>, <<>>}

Repositories ==
    {<<"h", "t", "t", "p", ":", "/", "/", "r">>,
     <<"h", "t", "t", "p", "s", ":", "/", "/", "r", "/">>,
     <<"/", "r">>,
     <<"f", "i", "l", "e", ":", "/", "/", "/", "r">>,
     <<>>}

CommandLines ==
    [package : Packages, version : Versions, repository : Repositories,
     max_depth : {10, 0}, test_mode : BOOLEAN]

NoArgs == [package |-> <<>>, version |-> <<>>, repository |-> <<>>,
           max_depth |-> 10, test_mode |-> FALSE]

Statuses == {200, 204, 304, 404, 500}

Worlds ==
    [kind : {"response"}, status : Statuses, decodable : BOOLEAN,
     content : ServedManifests]
    \cup {[kind |-> "transport_error", status |-> 0, decodable |-> FALSE,
           content |-> NoContent]}

\* no answer has been received
NoResponse == [kind |-> "none", status |-> 0, decodable |-> FALSE, content |-> NoContent]

NoNet == [requests |-> 0, local_reads |-> 0]

(***************************************************************************)
(* run(): one action per stage.  pc names the stage that runs next; trace  *)
(* lists the stages that have been entered.                                *)
(***************************************************************************)
Init ==
    /\ pc = "parse_arguments"
    /\ args = NoArgs
    /\ group_id = <<>>
    /\ artifact_id = <<>>
    /\ pom_url = <<>>
    /\ response = NoResponse
    /\ pom_content = NoContent
    /\ dependencies = <<>>
    /\ error = NoError
    /\ exit_code = Running
    /\ trace = <<>>
    /\ net = NoNet

\* sys.exit(code), or the exception reaching run()'s handler at line 283
Exit(code, e) ==
    /\ pc' = "exited"
    /\ exit_code' = code
    /\ error' = e

\* argparse returns the options, or rejects the command line with status 2
parse_arguments ==
    /\ pc = "parse_arguments"
    /\ \/ /\ \E a \in CommandLines : args' = a
          /\ pc' = "run_stage1"
          /\ UNCHANGED <<exit_code, error>>
       \/ /\ Exit(2, [kind |-> "SystemExit", msg |-> "usage", code |-> 0, cause |-> "argparse"])
          /\ UNCHANGED args
    /\ UNCHANGED <<group_id, artifact_id, pom_url, response, pom_content, dependencies,
                   trace, net>>

run_stage1 ==
    /\ pc = "run_stage1"
    /\ trace' = Append(trace, "validation")
    /\ IF validate_arguments(args)
       THEN pc' = "parse_package_name" /\ UNCHANGED <<exit_code, error>>
       ELSE Exit(1, [kind |-> "SystemExit", msg |-> "invalid configuration",
                     code |-> 0, cause |-> "ValueError"])
    /\ UNCHANGED <<args, group_id, artifact_id, pom_url, response, pom_content,
                   dependencies, net>>

stage_parse_package_name ==
    /\ pc = "parse_package_name"
    /\ trace' = Append(trace, "coordinate parsing")
    /\ LET r == parse_package_name(args.package)
       IN  IF r.ok
           THEN /\ group_id' = r.group_id
                /\ artifact_id' = r.artifact_id
                /\ pc' = "construct_pom_url"
                /\ UNCHANGED <<exit_code, error>>
           ELSE /\ Exit(1, r.error)
                /\ UNCHANGED <<group_id, artifact_id>>
    /\ UNCHANGED <<args, pom_url, response, pom_content, dependencies, net>>

stage_construct_pom_url ==
    /\ pc = "construct_pom_url"
    /\ trace' = Append(trace, "URL building")
    /\ pom_url' = construct_pom_url(group_id, artifact_id, args.version, args.repository)
    /\ pc' = "download_pom_file"
    /\ UNCHANGED <<args, group_id, artifact_id, response, pom_content, dependencies,
                   error, exit_code, net>>

stage_download_pom_file ==
    /\ pc = "download_pom_file"
    /\ trace' = Append(trace, "retrieval")
    /\ \E world \in Worlds :
          LET r == download_pom_file(pom_url, world)
          IN  /\ net' = [requests |-> net.requests + r.requests,
                         local_reads |-> net.local_reads + r.local_reads]
              /\ response' = IF r.requests > 0 THEN world ELSE NoResponse
              /\ IF r.ok
                 THEN /\ pom_content' = r.value
                      /\ pc' = "parse_dependencies_from_pom"
                      /\ UNCHANGED <<exit_code, error>>
                 ELSE /\ Exit(1, r.error)
                      /\ UNCHANGED pom_content
    /\ UNCHANGED <<args, group_id, artifact_id, pom_url, dependencies>>

\* the parsing stage swallowing the exception and presenting an empty list
stage_parse_dependencies_from_pom_best_effort ==
    /\ pc = "parse_dependencies_from_pom"
    /\ trace' = Append(trace, "parsing")
    /\ LET r == parse_dependencies_from_pom(pom_content)
       IN  /\ dependencies' = r.value
           /\ error' = r.error
           /\ pc' = "display_dependencies"
    /\ UNCHANGED <<args, group_id, artifact_id, pom_url, response, pom_content,
                   exit_code, net>>

stage_parse_dependencies_from_pom ==
    /\ pc = "parse_dependencies_from_pom"
    /\ trace' = Append(trace, "parsing")
    /\ LET r == parse_dependencies_from_pom(pom_content)
       IN  IF r.ok
           THEN /\ dependencies' = r.value
                /\ pc' = "display_dependencies"
                /\ UNCHANGED <<exit_code, error>>
           ELSE /\ Exit(1, r.error)
                /\ UNCHANGED dependencies
    /\ UNCHANGED <<args, group_id, artifact_id, pom_url, response, pom_content, net>>

\* display_dependencies prints the list; run_stage2 and run then return
stage_display_dependencies ==
    /\ pc = "display_dependencies"
    /\ trace' = Append(trace, "presentation")
    /\ pc' = "exited"
    /\ exit_code' = 0
    /\ UNCHANGED <<args, group_id, artifact_id, pom_url, response, pom_content,
                   dependencies, error, net>>

Next ==
    \/ parse_arguments
    \/ run_stage1
    \/ stage_parse_package_name
    \/ stage_construct_pom_url
    \/ stage_download_pom_file
    \/ stage_parse_dependencies_from_pom
    \/ stage_display_dependencies

Spec == Init /\ [][Next]_vars

(***************************************************************************)
(* The coordinate parser and the URL builder called on their own: a caller *)
(* passes any package string to parse_package_name and hands the pair it   *)
(* returns, a version and a repository root to construct_pom_url.          *)
(***************************************************************************)
CoordinateChars == {"g", ".", ":", " "}

CoordinateVersions == {<<"1">>, <<"1", ".", "0">>}

CoordinateRoots ==
    {<<>>, <<"h">>, <<"h", "/">>, <<"h", "/", "/">>, <<"h", ".", "x", "/", "m">>}

InitCoord ==
    /\ pc = "call_parse_package_name"
    /\ args \in [package : SeqsUpTo(CoordinateChars, MaxLen),
                 version : CoordinateVersions, repository : CoordinateRoots,
                 max_depth : {10}, test_mode : {FALSE}]
    /\ group_id = <<>>
    /\ artifact_id = <<>>
    /\ pom_url = <<>>
    /\ response = NoResponse
    /\ pom_content = NoContent
    /\ dependencies = <<>>
    /\ error = NoError
    /\ exit_code = Running
    /\ trace = <<>>
    /\ net = NoNet

call_parse_package_name ==
    /\ pc = "call_parse_package_name"
    /\ LET r == parse_package_name(args.package)
       IN  IF r.ok
           THEN /\ group_id' = r.group_id
                /\ artifact_id' = r.artifact_id
                /\ pc' = "call_construct_pom_url"
                /\ UNCHANGED error
           ELSE /\ error' = r.error
                /\ pc' = "parse_package_name_raised"
                /\ UNCHANGED <<group_id, artifact_id>>
    /\ UNCHANGED <<args, pom_url, response, pom_content, dependencies, exit_code,
                   trace, net>>

call_construct_pom_url ==
    /\ pc = "call_construct_pom_url"
    /\ pom_url' = construct_pom_url(group_id, artifact_id, args.version, args.repository)
    /\ pc' = "construct_pom_url_returned"
    /\ UNCHANGED <<args, group_id, artifact_id, response, pom_content, dependencies,
                   error, exit_code, trace, net>>

NextCoord == call_parse_package_name \/ call_construct_pom_url

SpecCoord == InitCoord /\ [][NextCoord]_vars

(***************************************************************************)
(* The manifest parser called on its own with any manifest text.           *)
(***************************************************************************)
InitPom ==
    /\ pc = "call_parse_dependencies_from_pom"
    /\ args = NoArgs
    /\ group_id = <<>>
    /\ artifact_id = <<>>
    /\ pom_url = <<>>
    /\ response = NoResponse
    /\ pom_content \in Manifests
    /\ dependencies = <<>>
    /\ error = NoError
    /\ exit_code = Running
    /\ trace = <<>>
    /\ net = NoNet

call_parse_dependencies_from_pom ==
    /\ pc = "call_parse_dependencies_from_pom"
    /\ LET r == parse_dependencies_from_pom(pom_content)
       IN  IF r.ok
           THEN /\ dependencies' = r.value
                /\ pc' = "parse_dependencies_from_pom_returned"
                /\ UNCHANGED error
           ELSE /\ error' = r.error
                /\ pc' = "parse_dependencies_from_pom_raised"
                /\ UNCHANGED dependencies
    /\ UNCHANGED <<args, group_id, artifact_id, pom_url, response, pom_content,
                   exit_code, trace, net>>

NextPom == call_parse_dependencies_from_pom

SpecPom == InitPom /\ [][NextPom]_vars

(***************************************************************************)
(* Properties.                                                             *)
(***************************************************************************)
ParseReturned == pc = "parse_dependencies_from_pom_returned"

\* e has a direct child {POM_NS}tag
HasChild(e, tag) ==
    \E i \in 1..Len(e.kids) : e.kids[i].tag = tag /\ e.kids[i].ns = POM_NS

\* the text of e's first direct child {POM_NS}tag
ChildText(e, tag) ==
    LET i == CHOOSE k \in 1..Len(e.kids) :
                /\ e.kids[k].tag = tag /\ e.kids[k].ns = POM_NS
                /\ \A j \in 1..(k - 1) : ~(e.kids[j].tag = tag /\ e.kids[j].ns = POM_NS)
    IN  e.kids[i].text

\* the dependency elements directly under the located dependency list
DependencyChildren ==
    LET list == locate_dependencies(pom_content.root)
    IN  IF list = NoElement THEN <<>>
        ELSE SelectSeq(list.kids, LAMBDA k : k.tag = "dependency" /\ k.ns = POM_NS)

HasBothIdentifiers(d) == HasChild(d, "groupId") /\ HasChild(d, "artifactId")

\* those of them that have a group and an artifact identifier
CompleteChildren == SelectSeq(DependencyChildren, HasBothIdentifiers)

IncompleteCount ==
    Cardinality({i \in 1..Len(DependencyChildren) :
                    ~HasBothIdentifiers(DependencyChildren[i])})

\* C1: every record returned by parse_dependencies_from_pom has a non-empty
\* groupId and a non-empty artifactId (an element whose groupId or artifactId
\* has no text is excluded).
C1_NonEmptyIdentifiers ==
    ParseReturned =>
        \A i \in 1..Len(dependencies) :
            /\ dependencies[i].groupId \notin {None, ""}
            /\ dependencies[i].artifactId \notin {None, ""}

DotsToSlashes(g) == [i \in 1..Len(g) |-> IF g[i] = "." THEN "/" ELSE g[i]]

OneSlashRemoved(r) ==
    IF Len(r) > 0 /\ r[Len(r)] = "/" THEN [i \in 1..(Len(r) - 1) |-> r[i]] ELSE r

ManifestAddress(g, a, v, r) ==
    OneSlashRemoved(r) \o <<"/">> \o DotsToSlashes(g) \o <<"/">> \o a \o <<"/">> \o v
        \o <<"/">> \o a \o <<"-">> \o v \o <<".", "p", "o", "m">>

UrlReturned == pc = "construct_pom_url_returned"

\* C2 as stated: the address is <root'>/<group path>/<artifactId>/<version>/
\* <artifactId>-<version>.pom with one trailing '/' of the root removed, and
\* every root r gives the same address as r + '/'.
C2_AddressAndAnyRootPlusSlash ==
    UrlReturned =>
        /\ pom_url = ManifestAddress(group_id, artifact_id, args.version, args.repository)
        /\ construct_pom_url(group_id, artifact_id, args.version,
                             Append(args.repository, "/")) = pom_url

\* C2 amended: the address has the stated form, and a root r that does not
\* end in '/' gives the same address as r + '/'.
C2_AddressFormat ==
    UrlReturned =>
        /\ pom_url = ManifestAddress(group_id, artifact_id, args.version, args.repository)
        /\ ~endswith(args.repository, "/") =>
              construct_pom_url(group_id, artifact_id, args.version,
                                Append(args.repository, "/")) = pom_url

C2_Witness ==
    /\ UrlReturned
    /\ "." \in Range(group_id)
    /\ args.repository = <<"h">>

\* C3: the returned list is, in declaration order, the subsequence of the
\* dependency list's direct-child dependency elements that have both a group
\* and an artifact identifier; each element missing one shortens it by one.
C3_OrderedSubsequence ==
    ParseReturned =>
        /\ Len(dependencies) = Len(CompleteChildren)
        /\ Len(dependencies) = Len(DependencyChildren) - IncompleteCount
        /\ \A i \in 1..Len(CompleteChildren) :
              /\ dependencies[i].groupId = ChildText(CompleteChildren[i], "groupId")
              /\ dependencies[i].artifactId = ChildText(CompleteChildren[i], "artifactId")

C3_Witness ==
    /\ ParseReturned
    /\ Len(dependencies) >= 1
    /\ IncompleteCount >= 1

\* C4: a response whose status is not 200 makes download_pom_file fail with
\* an error carrying that status; no content is returned and neither parsing
\* nor presentation runs.
C4_Non200Fails ==
    (response.kind = "response" /\ response.status # 200) =>
        /\ pc = "exited"
        /\ exit_code = 1
        /\ error.kind = "Exception"
        /\ error.code = response.status
        /\ pom_content = NoContent
        /\ dependencies = <<>>
        /\ "parsing" \notin Range(trace)
        /\ "presentation" \notin Range(trace)

C4_Witness ==
    /\ response.kind = "response"
    /\ response.status = 204
    /\ response.decodable
    /\ pc = "exited"

StageOrder ==
    <<"validation", "coordinate parsing", "URL building", "retrieval", "parsing",
      "presentation">>

IsPrefix(t, s) == Len(t) <= Len(s) /\ \A i \in 1..Len(t) : t[i] = s[i]

\* C5: the stages run in the fixed order, each at most once, with at most
\* one retrieval attempt; after a failure no later stage runs and the exit
\* status is non-zero; a run without failure reaches presentation and ends
\* with status 0.
C5_StageOrder ==
    /\ IsPrefix(trace, StageOrder)
    /\ net.requests + net.local_reads <= 1
    /\ error # NoError => (pc = "exited" /\ exit_code \notin {0, Running})
    /\ pc = "exited" => (exit_code = 0 <=> (error = NoError /\ trace = StageOrder))
    /\ pc # "exited" => exit_code = Running

C5_Witness ==
    /\ pc = "exited"
    /\ exit_code = 0
    /\ trace = StageOrder

\* C6: a manifest that is not well-formed XML makes the parser fail with a
\* parse error carrying the syntax error description; no list is returned,
\* presentation does not run and the exit status is non-zero.
C6_MalformedStops ==
    ("parsing" \in Range(trace) /\ ~pom_content.wellformed) =>
        /\ pc = "exited"
        /\ exit_code = 1
        /\ error.msg = "POM XML parse error"
        /\ error.cause = pom_content.syntax_error
        /\ dependencies = <<>>
        /\ "presentation" \notin Range(trace)

C6_Witness ==
    /\ "parsing" \in Range(trace)
    /\ ~pom_content.wellformed
    /\ pc = "exited"

\* C7: a record's version is "N/A" when its element has no version and the
\* declared version otherwise, its scope is "compile" when the element has
\* no scope and the declared scope otherwise; a well-formed manifest never
\* makes the parser fail.
C7_Defaults ==
    /\ ParseReturned =>
          /\ Len(dependencies) = Len(CompleteChildren)
          /\ \A i \in 1..Len(CompleteChildren) :
                /\ dependencies[i].version =
                      IF HasChild(CompleteChildren[i], "version")
                      THEN ChildText(CompleteChildren[i], "version") ELSE "N/A"
                /\ dependencies[i].scope =
                      IF HasChild(CompleteChildren[i], "scope")
                      THEN ChildText(CompleteChildren[i], "scope") ELSE "compile"
    /\ pc = "parse_dependencies_from_pom_raised" => ~pom_content.wellformed

C7_Witness ==
    /\ ParseReturned
    /\ \E i \in 1..Len(dependencies) :
          /\ dependencies[i].version = "N/A"
          /\ dependencies[i].scope = "compile"
          /\ ~HasChild(CompleteChildren[i], "version")

\* C8: in test mode, or with a local path as repository, retrieval reads
\* local content and issues no network request.
C8_LocalRetrieval ==
    ("retrieval" \in Range(trace) /\ (args.test_mode \/ url_type(args.repository) = <<>>)) =>
        /\ net.requests = 0
        /\ pc # "exited" => net.local_reads = 1

ColonCount(s) == Cardinality({i \in 1..Len(s) : s[i] = ":"})

NameParsed == pc \in {"call_construct_pom_url", "construct_pom_url_returned"}

Trimmed(s) == s = <<>> \/ (s[1] \notin Whitespace /\ s[Len(s)] \notin Whitespace)

\* no whitespace next to the first ':' of s
ColonUnpadded(s) ==
    LET i == find_char(s, ":", 1)
    IN  /\ i > 1 => s[i - 1] \notin Whitespace
        /\ i < Len(s) => s[i + 1] \notin Whitespace

\* what C9 says about the split and the failure
C9_Split ==
    /\ pc # "call_parse_package_name" =>
          (pc = "parse_package_name_raised" <=> ColonCount(args.package) = 0)
    /\ NameParsed =>
          /\ ":" \notin Range(group_id)
          /\ ColonCount(artifact_id) = ColonCount(args.package) - 1
          /\ Trimmed(group_id)
          /\ Trimmed(artifact_id)

\* C9 as stated: for a string with exactly one ':', group + ':' + artifact is
\* the original trimmed of its surrounding whitespace; the split is at the
\* first ':', both parts are trimmed, and a string without ':' fails.
C9_RejoinIsTrimmedOriginal ==
    /\ C9_Split
    /\ (NameParsed /\ ColonCount(args.package) = 1) =>
          group_id \o <<":">> \o artifact_id = strip(args.package)

\* C9 amended: the same, the rejoined pair being the trimmed original when
\* no whitespace stands next to the ':'.
C9_RejoinWhenUnpadded ==
    /\ C9_Split
    /\ (NameParsed /\ ColonCount(args.package) = 1 /\ ColonUnpadded(args.package)) =>
          group_id \o <<":">> \o artifact_id = strip(args.package)

C9_Witness ==
    /\ NameParsed
    /\ ColonCount(args.package) = 1
    /\ ColonUnpadded(args.package)
    /\ args.package # strip(args.package)
    /\ group_id # <<>>

\* C10: the records returned come from the dependencies element that is a
\* direct child of the manifest root, never from one nested elsewhere.
C10_RootLevelList ==
    ParseReturned =>
        LET own == SelectSeq(pom_content.root.kids,
                             LAMBDA k : k.tag = "dependencies" /\ k.ns = POM_NS)
        IN  dependencies =
                IF own = <<>> THEN <<>>
                ELSE collect_dependencies(findall(own[1], "dependency"), <<>>)

====
